---- MODULE Spec2Model ----
(***************************************************************************)
(* A model of the Gemma embedding / reranking service: the EmbeddingService*)
(* class (one-time model load, getEmbeddings, rerank) and the Express      *)
(* routes POST /v1/embeddings, POST /embed and POST /rerank with the       *)
(* authenticateApiKey middleware, GET /health, and startServer with its    *)
(* HTTPS / HTTP listeners and the signal handlers.                         *)
(*                                                                         *)
(* JavaScript runs one callback at a time: every action below is the code  *)
(* that runs between two awaits (a request handler up to its first await,  *)
(* the continuation after a promise settles, ...).                         *)
(***************************************************************************)
EXTENDS Integers, Sequences, FiniteSets, TLC

\* ------------------------------------------------------------------ bounds

\* Number of request slots (requests the clients send in one behaviour).
MaxReq == 2

\* Longest documents list handed to the ranking function in SpecRerank.
MaxDocs == 3

\* ------------------------------------------------------- program constants

MAX_DIMENSIONS == 768

SUPPORTED_DIMENSIONS == {768, 512, 256, 128}

MODEL_ID == "embeddinggemma-300m"

prefixes == [query |-> "task: search result | query: ",
             document |-> "title: none | text: "]

\* ------------------------------------------------------------- JS values
\* A JSON value of a request body: one record shape for every kind, so that
\* values of different kinds can be compared.

JUndef == [kind |-> "undefined", str |-> "", arr |-> <<>>, num |-> 0]

JStr(s) == [kind |-> "string", str |-> s, arr |-> <<>>, num |-> 0]

JArr(a) == [kind |-> "array", str |-> "", arr |-> a, num |-> 0]

JNum(n) == [kind |-> "number", str |-> "", arr |-> <<>>, num |-> n]

\* !v : undefined, "" and 0 are falsy; every array (also []) is truthy.
Falsy(v) ==
    \/ v.kind = "undefined"
    \/ v.kind = "string" /\ v.str = ""
    \/ v.kind = "number" /\ v.num = 0

IsArray(v) == v.kind = "array"

\* ------------------------------------------------------------ sequences

\* All sequences over S of length lo..hi.
SeqsOf(S, lo, hi) == UNION {[1..n -> S] : n \in lo..hi}

\* --------------------------------------------------------- text encoder
\* The tokenizer and the ONNX model are external. A text is a string; the
\* text handed to the tokenizer is prefix + text, kept as the pair
\* <<prefix, text>> (string concatenation with a fixed prefix is injective).

Concat(prefix, text) == <<prefix, text>>

\* The numeric rows the ranking reads: a model row has MAX_DIMENSIONS
\* floating-point components; the model keeps a short integer vector per row.
\* embeddinggemma's sentence_embedding is never the zero vector.
Vectors == {<<1, 0>>, <<2, 0>>, <<0, 1>>, <<1, 1>>, <<-1, 0>>}

\* ------------------------------------------------------ rerank, 181-208

Dot(u, v) == u[1] * v[1] + u[2] * v[2]

\* One entry of `similarities`: the loop of lines 185-193 computes
\* dotProduct, queryMagnitude and docMagnitude; line 195 divides. The
\* quotient dot / (sqrt(qm) * sqrt(dm)) is kept as its three exact parts.
similarity(queryVector, docVector) ==
    [dotProduct |-> Dot(queryVector, docVector),
     queryMagnitude |-> Dot(queryVector, queryVector),
     docMagnitude |-> Dot(docVector, docVector)]

similarities(queryVector, documentVectors) ==
    [i \in DOMAIN documentVectors |-> similarity(queryVector, documentVectors[i])]

\* Sign of a real number given as sign-carrying numerator n and squared
\* positive denominator: x = n / sqrt(m). x < y for x = n1/sqrt(m1),
\* y = n2/sqrt(m2), m1, m2 > 0.
RealLess(n1, m1, n2, m2) ==
    IF n1 < 0 /\ n2 >= 0 THEN TRUE
    ELSE IF n1 >= 0 /\ n2 < 0 THEN FALSE
    ELSE IF n1 >= 0 THEN n1 * n1 * m2 < n2 * n2 * m1
    ELSE n1 * n1 * m2 > n2 * n2 * m1

\* a.score < b.score for two entries computed against the same query
\* (the common positive factor sqrt(queryMagnitude) cancels).
ScoreLess(a, b) ==
    RealLess(a.dotProduct, a.docMagnitude, b.dotProduct, b.docMagnitude)

\* The comparator of line 202, (a, b) => b.score - a.score, as its sign.
compareAscending(a, b) ==
    IF ScoreLess(a.score, b.score) THEN -1
    ELSE IF ScoreLess(b.score, a.score) THEN 1 ELSE 0

compare(a, b) ==
    IF ScoreLess(b.score, a.score) THEN -1
    ELSE IF ScoreLess(a.score, b.score) THEN 1 ELSE 0

\* Array.prototype.sort is a stable sort (ECMAScript 2019, V8 >= 7.0): an
\* element is placed after every earlier element that does not compare
\* greater. Insertion of x into the sorted sequence s.
RECURSIVE InsertBeforeEqual(_, _)
InsertBeforeEqual(s, x) ==
    IF s = <<>> THEN <<x>>
    ELSE IF compare(x, s[1]) <= 0 THEN <<x>> \o s
    ELSE <<s[1]>> \o InsertBeforeEqual(Tail(s), x)

RECURSIVE Insert(_, _)
Insert(s, x) ==
    IF s = <<>> THEN <<x>>
    ELSE IF compare(x, s[1]) < 0 THEN <<x>> \o s
    ELSE <<s[1]>> \o Insert(Tail(s), x)

RECURSIVE SortFrom(_, _, _)
SortFrom(sorted, s, i) ==
    IF i > Len(s) THEN sorted
    ELSE SortFrom(Insert(sorted, s[i]), s, i + 1)

sort(s) == SortFrom(<<>>, s, 1)

\* Lines 200-201: similarities.map((score, index) => ({ index, score })),
\* index counted from 0.
RankingItemsSkipLast(sims) ==
    [i \in 1..(Len(sims) - 1) |-> [index |-> i - 1, score |-> sims[i]]]

RankingItems(sims) ==
    [i \in DOMAIN sims |-> [index |-> i - 1, score |-> sims[i]]]

\* Line 208: ranking.map(item => item.index)
ItemIndex(item) == item.index

\* Lines 181-208 of rerank: from the query row and the document rows to the
\* returned list of indices.
rankVectors(queryVector, documentVectors) ==
    LET ranking == sort(RankingItems(similarities(queryVector, documentVectors)))
    IN  [k \in DOMAIN ranking |-> ItemIndex(ranking[k])]

\* -------------------------------------------- getEmbeddings, 113-132
\* A row of sentence_embedding is kept symbolically: the prefixed text it
\* encodes, its number of components, and the tensor operations applied to
\* it since the model returned it.

EncoderRow(processedText) ==
    [of |-> processedText, len |-> MAX_DIMENSIONS, ops |-> <<>>]

\* (this.model)(inputs): one row per text of the batch, in batch order.
sentence_embedding(batch) == [i \in DOMAIN batch |-> EncoderRow(batch[i])]

ApplyOp(row, op) == [row EXCEPT !.ops = Append(@, op)]

layer_norm(rows) == [i \in DOMAIN rows |-> ApplyOp(rows[i], "layer_norm")]

\* Tensor.slice(null, [0, end]) of @huggingface/transformers: an end past the
\* size is clamped, a negative end counts from the back.
SliceEnd(end, size) ==
    IF end >= size THEN size
    ELSE IF end < -size THEN 0
    ELSE IF end < 0 THEN end + size
    ELSE end

slice(rows, end) ==
    [i \in DOMAIN rows |->
        [ApplyOp(rows[i], "slice") EXCEPT !.len = SliceEnd(end, rows[i].len)]]

normalize(rows) == [i \in DOMAIN rows |-> ApplyOp(rows[i], "normalize")]

\* Line 114
DocumentText(text) == Concat(prefixes.document, text)

processedTextsBare(texts) == [i \in DOMAIN texts |-> Concat("", texts[i])]

processedTexts(texts) == [i \in DOMAIN texts |-> DocumentText(texts[i])]

\* Lines 119-132: the rows returned for the rows the model gave.
reduceDimensionsWhenGiven(embeddings, dimensions) ==
    IF ~Falsy(dimensions)
    THEN normalize(slice(layer_norm(embeddings), dimensions.num))
    ELSE embeddings

reduceDimensionsSliceFirst(embeddings, dimensions) ==
    IF ~Falsy(dimensions) /\ dimensions.num < MAX_DIMENSIONS
    THEN normalize(layer_norm(slice(embeddings, dimensions.num)))
    ELSE embeddings

reduceDimensions(embeddings, dimensions) ==
    IF ~Falsy(dimensions) /\ dimensions.num < MAX_DIMENSIONS
    THEN normalize(slice(layer_norm(embeddings), dimensions.num))
    ELSE embeddings

\* Lines 153-161
countTokens(text) == (Len(text) + 3) \div 4

RECURSIVE SumTokens(_, _)
SumTokens(texts, i) ==
    IF i > Len(texts) THEN 0
    ELSE countTokens(texts[i]) + SumTokens(texts, i + 1)

getTotalTokens(texts) == SumTokens(texts, 1)

\* ------------------------------------------------------------ responses
\* What res.status(..).json(..) sends. status 0: nothing sent yet.

Response(status, error, message, data, count, ranking) ==
    [status |-> status, error |-> error, message |-> message,
     data |-> data, count |-> count, ranking |-> ranking, total_tokens |-> 0]

NoResponse == Response(0, "", "", <<>>, 0, <<>>)

ErrorResponse(status, error, message) ==
    Response(status, error, message, <<>>, 0, <<>>)

\* ------------------------------------------- authenticateApiKey, 232-259
\* The Authorization header and API_KEY are strings, kept as sequences of
\* pieces: the seven characters "Bearer " are one piece. <<>> is the missing
\* (or empty) header, and the unset (or empty) API_KEY.

startsWithBearer(authHeader) == Len(authHeader) >= 1 /\ authHeader[1] = "Bearer "

\* Line 249
token(authHeader) ==
    IF startsWithBearer(authHeader) THEN Tail(authHeader) ELSE authHeader

\* The response the middleware sends, NoResponse when it calls next().
authenticateApiKeyAnyToken(API_KEY, authHeader) ==
    IF API_KEY = <<>>
    THEN ErrorResponse(500, "Server configuration error",
                       "API_KEY environment variable not set")
    ELSE IF authHeader = <<>>
    THEN ErrorResponse(401, "Unauthorized", "Authorization header is required")
    ELSE NoResponse

authenticateApiKeyHeaderFirst(API_KEY, authHeader) ==
    IF authHeader = <<>>
    THEN ErrorResponse(401, "Unauthorized", "Authorization header is required")
    ELSE IF API_KEY = <<>>
    THEN ErrorResponse(500, "Server configuration error",
                       "API_KEY environment variable not set")
    ELSE IF token(authHeader) # API_KEY
    THEN ErrorResponse(401, "Unauthorized", "Invalid API key")
    ELSE NoResponse

authenticateApiKey(API_KEY, authHeader) ==
    IF API_KEY = <<>>
    THEN ErrorResponse(500, "Server configuration error",
                       "API_KEY environment variable not set")
    ELSE IF authHeader = <<>>
    THEN ErrorResponse(401, "Unauthorized", "Authorization header is required")
    ELSE IF token(authHeader) # API_KEY
    THEN ErrorResponse(401, "Unauthorized", "Invalid API key")
    ELSE NoResponse

\* ------------------------------------------------------ route validation

\* Line 358 / 420: Array.isArray(input) ? input : [input]
textsOf(input) == IF IsArray(input) THEN input.arr ELSE <<input.str>>

\* POST /v1/embeddings, lines 298-367: the 400 sent, NoResponse when the
\* request passes. encoding_format defaults to 'float' (line 298).
validateV1(body) ==
    LET encoding_format == IF body.encoding_format.kind = "undefined"
                           THEN JStr("float") ELSE body.encoding_format
    IN  IF Falsy(body.input)
        THEN ErrorResponse(400, "invalid_request_error",
                           "Missing required parameter: input")
        ELSE IF Falsy(body.model)
        THEN ErrorResponse(400, "invalid_request_error",
                           "Missing required parameter: model")
        ELSE IF body.model # JStr(MODEL_ID)
        THEN ErrorResponse(400, "invalid_request_error", "Model not found")
        ELSE IF /\ ~Falsy(body.dimensions)
                /\ (body.dimensions.num < 1 \/ body.dimensions.num > MAX_DIMENSIONS)
        THEN ErrorResponse(400, "invalid_request_error",
                           "Dimensions must be between 1 and 768")
        ELSE IF encoding_format # JStr("float")
        THEN ErrorResponse(400, "invalid_request_error",
                           "Only float encoding format is currently supported")
        ELSE IF Len(textsOf(body.input)) = 0
        THEN ErrorResponse(400, "invalid_request_error",
                           "Input array cannot be empty")
        ELSE NoResponse

\* POST /embed, lines 411-426
validateEmbed(body) ==
    IF Falsy(body.input)
    THEN ErrorResponse(400, "Missing required field: input", "")
    ELSE IF Len(textsOf(body.input)) = 0
    THEN ErrorResponse(400, "Input array cannot be empty", "")
    ELSE NoResponse

\* POST /rerank, lines 454-472
validateRerankAllowsEmpty(body) ==
    IF Falsy(body.query) \/ Falsy(body.documents)
    THEN ErrorResponse(400, "Missing required fields: query and documents", "")
    ELSE IF ~IsArray(body.documents)
    THEN ErrorResponse(400, "Documents must be an array", "")
    ELSE NoResponse

validateRerank(body) ==
    IF Falsy(body.query) \/ Falsy(body.documents)
    THEN ErrorResponse(400, "Missing required fields: query and documents", "")
    ELSE IF ~IsArray(body.documents)
    THEN ErrorResponse(400, "Documents must be an array", "")
    ELSE IF Len(body.documents.arr) = 0
    THEN ErrorResponse(400, "Documents array cannot be empty", "")
    ELSE NoResponse

validate(route, body) ==
    CASE route = "/v1/embeddings" -> validateV1(body)
      [] route = "/embed" -> validateEmbed(body)
      [] route = "/rerank" -> validateRerank(body)

\* The catch blocks, lines 394-403, 439-446, 484-491: error.message is sent.
catchResponseOk(route, message) ==
    CASE route = "/v1/embeddings" -> ErrorResponse(200, "internal_server_error", message)
      [] route = "/embed" -> ErrorResponse(200, "Failed to generate embeddings", message)
      [] route = "/rerank" -> ErrorResponse(200, "Failed to rerank documents", message)

catchResponse(route, message) ==
    CASE route = "/v1/embeddings" -> ErrorResponse(500, "internal_server_error", message)
      [] route = "/embed" -> ErrorResponse(500, "Failed to generate embeddings", message)
      [] route = "/rerank" -> ErrorResponse(500, "Failed to rerank documents", message)

\* Lines 372-376: embeddings.map((embedding, index) => ({..., index, embedding}))
embeddingDataFromOne(embeddings) ==
    [i \in DOMAIN embeddings |-> [index |-> i, embedding |-> embeddings[i]]]

embeddingData(embeddings) ==
    [i \in DOMAIN embeddings |-> [index |-> i - 1, embedding |-> embeddings[i]]]

\* The success responses: lines 378-392, 434-437, 480-482.
embeddingsResponse(route, texts, embeddings) ==
    IF route = "/v1/embeddings"
    THEN [Response(200, "", "", embeddingData(embeddings), 0, <<>>)
             EXCEPT !.total_tokens = getTotalTokens(texts)]
    ELSE Response(200, "", "", embeddings, Len(embeddings), <<>>)

rerankResponse(ranking) == Response(200, "", "", <<>>, 0, ranking)

\* ================================================================ state

VARIABLES
    API_KEY,        \* process.env.API_KEY, as pieces; <<>> when not set
    encoder,        \* the loaded model: prefixed text -> numeric row
    initPromise,    \* "null", or the state of the promise: "pending", "fulfilled", "rejected"
    isInitialized,  \* EmbeddingService.isInitialized
    tokenizer,      \* "null" or "loaded"
    model,          \* "null" or "loaded"
    loadPc,         \* where _doInitialize is: "notCalled", "tokenizer", "model", "returned", "thrown"
    initError,      \* the message of the error initPromise was rejected with
    loadStarts,     \* how many times _doInitialize was called
    req,            \* the requests, by slot
    callStates,     \* the readiness states in which the tokenizer or the model was invoked
    call,           \* SpecRerank: one call of the ranking of lines 181-208
    health,         \* the last GET /health exchange
    server          \* the process: environment, certificate files, startServer, listeners

vars == <<API_KEY, encoder, initPromise, isInitialized, tokenizer, model,
          loadPc, initError, loadStarts, req, callStates, call, health, server>>

Lifecycle == <<initPromise, isInitialized, tokenizer, model, loadPc, initError, loadStarts>>

Slots == 1..MaxReq

\* The spec's ReadinessState, read off initPromise.
ReadinessState ==
    CASE initPromise = "null" -> "Uninitialized"
      [] initPromise = "pending" -> "Initializing"
      [] initPromise = "fulfilled" -> "Ready"
      [] initPromise = "rejected" -> "Failed"

\* --------------------------------------------------------------- inputs

Body(input, modelName, dimensions, encoding_format, query, documents) ==
    [input |-> input, model |-> modelName, dimensions |-> dimensions,
     encoding_format |-> encoding_format, query |-> query, documents |-> documents]

Request(route, authorization, body) ==
    [route |-> route, authorization |-> authorization, body |-> body]

Texts == {"hello", "hi"}

Queries == {"q"}

PrefixedTexts ==
    {Concat(prefixes.query, q) : q \in Queries}
        \cup {Concat(prefixes.document, t) : t \in Texts}

\* The messages of the errors the external loads and calls may throw.
ErrorMessages == {"ENOENT: no such file", "onnxruntime: invalid input"}

NoBody == Body(JUndef, JUndef, JUndef, JUndef, JUndef, JUndef)

NoRequest == Request("", <<>>, NoBody)

\* A request slot: where its handler is (pc), the request (in), the
\* readiness state it arrived in, rerank's queryVector, what its
\* `await this.initialize()` gave ("none" before, "resolved", or the message
\* of the error thrown), the step that failed, the response sent, and the
\* texts of its latest tokenizer call, whose batch the model is called with.
IdleSlot ==
    [pc |-> "idle", in |-> NoRequest, arrivedIn |-> "", queryVector |-> <<>>,
     initSeen |-> "none", failedIn |-> "", response |-> NoResponse,
     batch |-> <<>>]

\* ------------------------------------------------- the one-time load

\* Line 76, if (this.initPromise): the promise of an earlier call is reused.
initialize_reusesOnlyFulfilled(p) == p = "fulfilled"

initialize_reusesUnlessRejected(p) == p \in {"pending", "fulfilled"}

initialize_reuses(p) == p # "null"

\* _doInitialize up to its first await (lines 84-92).
doInitialize ==
    /\ loadStarts' = loadStarts + 1
    /\ IF isInitialized
       THEN initPromise' = "fulfilled" /\ loadPc' = "returned"
       ELSE initPromise' = "pending" /\ loadPc' = "tokenizer"
    /\ UNCHANGED <<isInitialized, tokenizer, model, initError>>

\* initialize(), lines 75-82, as called from getEmbeddings and rerank.
initialize ==
    IF initialize_reuses(initPromise) THEN UNCHANGED Lifecycle ELSE doInitialize

TokenizerLoadedSetsFlag ==
    /\ loadPc = "tokenizer"
    /\ tokenizer' = "loaded"
    /\ isInitialized' = TRUE
    /\ loadPc' = "model"
    /\ UNCHANGED <<initPromise, model, initError, loadStarts>>
    /\ UNCHANGED <<health, server, API_KEY, encoder, req, callStates, call>>

\* Line 92: AutoTokenizer.from_pretrained resolved.
TokenizerLoaded ==
    /\ loadPc = "tokenizer"
    /\ tokenizer' = "loaded"
    /\ loadPc' = "model"
    /\ UNCHANGED <<initPromise, isInitialized, model, initError, loadStarts>>
    /\ UNCHANGED <<health, server, API_KEY, encoder, req, callStates, call>>

\* Lines 93-99: AutoModel.from_pretrained resolved; _doInitialize returns.
FlagAfterLoad == TRUE

ModelLoaded ==
    /\ loadPc = "model"
    /\ model' = "loaded"
    /\ isInitialized' = FlagAfterLoad
    /\ initPromise' = "fulfilled"
    /\ loadPc' = "returned"
    /\ UNCHANGED <<tokenizer, initError, loadStarts>>
    /\ UNCHANGED <<health, server, API_KEY, encoder, req, callStates, call>>

\* Lines 100-104: either load threw; the catch block rethrows, which rejects
\* the promise initPromise holds.
PromiseAfterThrowCleared == "null"

PromiseAfterThrow == "rejected"

LoadThrows(e) ==
    /\ loadPc \in {"tokenizer", "model"}
    /\ initPromise' = PromiseAfterThrow
    /\ initError' = e
    /\ loadPc' = "thrown"
    /\ UNCHANGED <<isInitialized, tokenizer, model, loadStarts>>
    /\ UNCHANGED <<health, server, API_KEY, encoder, req, callStates, call>>

\* ----------------------------------------------------------- requests

Done(r, response, failedIn) ==
    [req EXCEPT ![r].pc = "done", ![r].response = response, ![r].failedIn = failedIn]

\* A request arrives: authenticateApiKey, the route's validation, and the
\* call of getEmbeddings / rerank up to `await this.initialize()`.
Receive(r, inputs) ==
    /\ req[r].pc = "idle"
    /\ IF r = 1 THEN TRUE ELSE req[r - 1].pc # "idle"
    /\ \E in \in inputs :
        LET auth == authenticateApiKey(API_KEY, in.authorization)
            invalid == validate(in.route, in.body)
            arrived == [req EXCEPT ![r].in = in, ![r].arrivedIn = ReadinessState]
        IN  IF auth # NoResponse
            THEN /\ req' = [arrived EXCEPT ![r].pc = "done", ![r].response = auth,
                                           ![r].failedIn = "auth"]
                 /\ UNCHANGED Lifecycle
            ELSE IF invalid # NoResponse
            THEN /\ req' = [arrived EXCEPT ![r].pc = "done", ![r].response = invalid,
                                           ![r].failedIn = "validation"]
                 /\ UNCHANGED Lifecycle
            ELSE /\ req' = [arrived EXCEPT ![r].pc = "awaitInit"]
                 /\ initialize
    /\ UNCHANGED <<health, server, API_KEY, encoder, callStates, call>>

\* `await p` continues once p is settled.
AwaitSettledOrPending(p) == p # "null"

AwaitSettledAtOnce(p) == TRUE

AwaitSettled(p) == p \in {"fulfilled", "rejected"}

\* What the awaiting caller gets: the rejection's error is thrown into it.
AwaitOutcomeSwallowed(p, error) == "resolved"

AwaitOutcome(p, error) == IF p = "rejected" THEN error ELSE "resolved"

\* Line 170 and line 176
queryText(query) == Concat(prefixes.query, query)

processedDocuments(documents) ==
    [i \in DOMAIN documents |-> DocumentText(documents[i])]

\* Lines 113-116 and 170-171: the texts of a handler's first tokenizer call.
firstTexts(in) ==
    IF in.route # "/rerank"
    THEN processedTexts(textsOf(in.body.input))
    ELSE <<queryText(in.body.query.str)>>

\* (this.tokenizer)(..) and (this.model)(..): calling null throws a TypeError.
TokenizerCall(base, r, nextPc) ==
    IF tokenizer = "null"
    THEN /\ req' = [base EXCEPT ![r].pc = "done",
                                ![r].response = catchResponse(req[r].in.route,
                                                  "this.tokenizer is not a function"),
                                ![r].failedIn = "inference"]
         /\ UNCHANGED callStates
    ELSE /\ req' = [base EXCEPT ![r].pc = nextPc]
         /\ callStates' = callStates \cup {ReadinessState}

ModelCall(r, nextPc) ==
    IF model = "null"
    THEN /\ req' = Done(r, catchResponse(req[r].in.route,
                                         "this.model is not a function"),
                        "inference")
         /\ UNCHANGED callStates
    ELSE /\ req' = [req EXCEPT ![r].pc = nextPc]
         /\ callStates' = callStates \cup {ReadinessState}

\* Lines 108-116 / 164-171: initialize() settled; on success the first
\* tokenizer call is made, on failure the route's catch block answers.
ResumeAfterInitialize(r) ==
    /\ req[r].pc = "awaitInit"
    /\ AwaitSettled(initPromise)
    /\ LET outcome == AwaitOutcome(initPromise, initError)
           seen == [req EXCEPT ![r].initSeen = outcome]
       IN  IF outcome # "resolved"
           THEN /\ req' = [seen EXCEPT ![r].pc = "done",
                                       ![r].response = catchResponse(req[r].in.route, outcome),
                                       ![r].failedIn = "initialize"]
                /\ UNCHANGED callStates
           ELSE TokenizerCall([seen EXCEPT ![r].batch = firstTexts(req[r].in)],
                              r, "tokenizer")
    /\ UNCHANGED Lifecycle
    /\ UNCHANGED <<health, server, API_KEY, encoder, call>>

\* Lines 116-117, 171-172, 177-178: the tokenizer returned, the model is called.
TokenizerReturns(r) ==
    /\ req[r].pc \in {"tokenizer", "tokenizerDocs"}
    /\ ModelCall(r, IF req[r].pc = "tokenizer" THEN "model" ELSE "modelDocs")
    /\ UNCHANGED Lifecycle
    /\ UNCHANGED <<health, server, API_KEY, encoder, call>>

\* tolist() of the rows the model returns for a batch
tolist(batch) == [i \in DOMAIN batch |-> encoder[batch[i]]]

ModelReturnsWarm(r) ==
    /\ req[r].pc \in {"model", "modelDocs"}
    /\ LET in == req[r].in
           warm == \E q \in Slots : q # r /\ req[q].pc = "done"
       IN  IF in.route # "/rerank"
           THEN LET texts == textsOf(in.body.input)
                    embeddings == reduceDimensions(
                                      sentence_embedding(req[r].batch),
                                      IF warm THEN JUndef ELSE in.body.dimensions)
                IN  /\ req' = Done(r, embeddingsResponse(in.route, texts, embeddings), "")
                    /\ UNCHANGED callStates
           ELSE IF req[r].pc = "model"
           THEN LET queryVector == tolist(req[r].batch)[1]
                    processedDocs == processedDocuments(in.body.documents.arr)
                IN  TokenizerCall([req EXCEPT ![r].queryVector = queryVector,
                                              ![r].batch = processedDocs],
                                  r, "tokenizerDocs")
           ELSE LET documentVectors == tolist(req[r].batch)
                    ranking == rankVectors(req[r].queryVector, documentVectors)
                IN  /\ req' = Done(r, rerankResponse(ranking), "")
                    /\ UNCHANGED callStates
    /\ UNCHANGED Lifecycle
    /\ UNCHANGED <<health, server, API_KEY, encoder, call>>

\* The model returned.
\*   getEmbeddings (117-138): reduce, and the route answers (369-392, 428-437).
\*   rerank, query batch (172-177): keep queryVector, tokenize the documents.
\*   rerank, document batch (178-208): rank, and the route answers (474-482).
ModelReturns(r) ==
    /\ req[r].pc \in {"model", "modelDocs"}
    /\ LET in == req[r].in
       IN  IF in.route # "/rerank"
           THEN LET texts == textsOf(in.body.input)
                    embeddings == reduceDimensions(
                                      sentence_embedding(req[r].batch),
                                      in.body.dimensions)
                IN  /\ req' = Done(r, embeddingsResponse(in.route, texts, embeddings), "")
                    /\ UNCHANGED callStates
           ELSE IF req[r].pc = "model"
           THEN LET queryVector == tolist(req[r].batch)[1]
                    processedDocs == processedDocuments(in.body.documents.arr)
                IN  TokenizerCall([req EXCEPT ![r].queryVector = queryVector,
                                              ![r].batch = processedDocs],
                                  r, "tokenizerDocs")
           ELSE LET documentVectors == tolist(req[r].batch)
                    ranking == rankVectors(req[r].queryVector, documentVectors)
                IN  /\ req' = Done(r, rerankResponse(ranking), "")
                    /\ UNCHANGED callStates
    /\ UNCHANGED Lifecycle
    /\ UNCHANGED <<health, server, API_KEY, encoder, call>>

InferenceThrowsAfterAnswer(r, e) ==
    /\ req[r].pc \in {"tokenizer", "model", "tokenizerDocs", "modelDocs", "done"}
    /\ req[r].failedIn = ""
    /\ req' = Done(r, catchResponse(req[r].in.route, e), "inference")
    /\ UNCHANGED Lifecycle
    /\ UNCHANGED <<health, server, API_KEY, encoder, callStates, call>>

\* A tokenizer or model call threw: the route's catch block answers.
InferenceThrows(r, e) ==
    /\ req[r].pc \in {"tokenizer", "model", "tokenizerDocs", "modelDocs"}
    /\ req' = Done(r, catchResponse(req[r].in.route, e), "inference")
    /\ UNCHANGED Lifecycle
    /\ UNCHANGED <<health, server, API_KEY, encoder, callStates, call>>

\* -------------------------------------------------- GET /health, 267-274

\* get initialized(), lines 211-213
initializedOnceLoading == initPromise # "null"

initialized == isInitialized

\* The exchange: the Authorization header the client sent, the status and
\* the `initialized` field of the answer, and the readiness state in which
\* the handler ran. status 0: no GET /health yet.
NoHealth == [authorization |-> <<>>, status |-> 0, initialized |-> FALSE, state |-> ""]

HealthHeaders == {<<>>, <<"x">>}

\* The route has no middleware and no await: res.json(..) is sent at once.
GetHealth(authHeader) ==
    /\ health' = [authorization |-> authHeader, status |-> 200,
                  initialized |-> initialized, state |-> ReadinessState]
    /\ UNCHANGED Lifecycle
    /\ UNCHANGED <<server, API_KEY, encoder, req, callStates, call>>

\* ------------------------------------------------ the process, 219-226
\* server.ts imported as a module (require.main !== module): startServer is
\* not called, the routes are reached through the exported app.

PORT == 8082

Listener(scheme) == [scheme |-> scheme, port |-> PORT]

ImportedModule ==
    [build |-> "part_002", USE_SSL |-> "unset", key |-> "absent", cert |-> "absent",
     pc |-> "notStarted", listeners |-> {}, listened |-> {},
     exited |-> FALSE, exitCode |-> 0]

\* ------------------------------------------------------ specification

\* The requests clients send in Spec: every route with a valid body, as a
\* single string and as a list, with and without `dimensions`, the key bare
\* and as Bearer; and requests the middleware or the validation rejects.
RerankDocuments == {JArr(<<"hello", "hi">>), JArr(<<"hi", "hello", "hi">>)}

ValidRequests ==
    {Request("/v1/embeddings", <<"k">>,
             [NoBody EXCEPT !.input = JArr(<<"hi", "hello">>), !.model = JStr(MODEL_ID)]),
     Request("/v1/embeddings", <<"Bearer ", "k">>,
             [NoBody EXCEPT !.input = JStr("hello"), !.model = JStr(MODEL_ID),
                            !.dimensions = JNum(256)]),
     Request("/embed", <<"k">>, [NoBody EXCEPT !.input = JStr("hello")])}
    \cup {Request("/rerank", <<"k">>, [NoBody EXCEPT !.query = JStr("q"), !.documents = d]) :
        d \in RerankDocuments}

RejectedRequests ==
    {Request("/v1/embeddings", <<"k">>, [NoBody EXCEPT !.input = JArr(<<>>),
                                                        !.model = JStr(MODEL_ID)]),
     Request("/v1/embeddings", <<"k">>, [NoBody EXCEPT !.input = JStr("hello"),
                                                        !.model = JStr("other")]),
     Request("/embed", <<"k">>, NoBody),
     Request("/rerank", <<"k">>, [NoBody EXCEPT !.query = JStr("q"),
                                                !.documents = JArr(<<>>)]),
     Request("/rerank", <<"x">>, [NoBody EXCEPT !.query = JStr("q"),
                                                !.documents = JArr(<<"hello", "hi">>)]),
     Request("/embed", <<>>, [NoBody EXCEPT !.input = JStr("hello")])}

Requests == ValidRequests \cup RejectedRequests

ApiKeys == {<<>>, <<"k">>}

\* The numeric rows of the loaded model for the texts of Requests: one model
\* that separates "hello" from "hi", one that scores them equal.
Encoders ==
    {[pt \in PrefixedTexts |->
        IF pt = Concat(prefixes.document, "hello") THEN v ELSE <<1, 0>>] :
        v \in {<<1, 1>>, <<2, 0>>}}

InitWith(keys, encoders) ==
    /\ API_KEY \in keys
    /\ encoder \in encoders
    /\ initPromise = "null"
    /\ isInitialized = FALSE
    /\ tokenizer = "null"
    /\ model = "null"
    /\ loadPc = "notCalled"
    /\ initError = ""
    /\ loadStarts = 0
    /\ req = [r \in Slots |-> IdleSlot]
    /\ callStates = {}
    /\ health = NoHealth

NoCall == [queryVector |-> <<>>, documentVectors |-> <<>>, returned |-> FALSE,
           ranking |-> <<>>]

Init == InitWith(ApiKeys, Encoders) /\ call = NoCall /\ server = ImportedModule

Next ==
    \/ \E r \in Slots : Receive(r, Requests)
    \/ TokenizerLoaded
    \/ ModelLoaded
    \/ \E e \in ErrorMessages : LoadThrows(e)
    \/ \E r \in Slots : ResumeAfterInitialize(r)
    \/ \E r \in Slots : TokenizerReturns(r)
    \/ \E r \in Slots : ModelReturns(r)
    \/ \E r \in Slots, e \in ErrorMessages : InferenceThrows(r, e)

Spec == Init /\ [][Next]_vars

\* The load and every tokenizer or model call end, by returning or by
\* throwing.
LoadEnds == TokenizerLoaded \/ ModelLoaded \/ \E e \in ErrorMessages : LoadThrows(e)

InferenceEnds(r) ==
    TokenizerReturns(r) \/ ModelReturns(r) \/ \E e \in ErrorMessages : InferenceThrows(r, e)

\* The event loop runs a callback that is ready.
Progress ==
    \/ LoadEnds
    \/ \E r \in Slots : ResumeAfterInitialize(r) \/ InferenceEnds(r)

\* ------------------------------------ one request, every kind of input
\* One client request (slot 1) over every combination of header and body
\* fields the middleware and the validations distinguish.

Headers ==
    {<<>>, <<"k">>, <<"Bearer ", "k">>, <<"x">>, <<"Bearer ", "x">>,
     <<"Bearer ", "Bearer ", "k">>}

InputValues == {JUndef, JStr(""), JStr("hello"), JArr(<<>>), JArr(<<"hi", "hello">>)}

ModelValues == {JUndef, JStr(MODEL_ID), JStr("other")}

DimensionsValues ==
    {JUndef, JNum(0), JNum(-1), JNum(1), JNum(256), JNum(MAX_DIMENSIONS),
     JNum(MAX_DIMENSIONS + 1)}

EncodingFormats == {JUndef, JStr("float"), JStr("base64")}

QueryValues == {JUndef, JStr("q")}

DocumentsValues == {JUndef, JStr("hello"), JArr(<<>>), JArr(<<"hello", "hi">>)}

V1Bodies ==
    {Body(i, m, d, f, JUndef, JUndef) :
        i \in InputValues, m \in ModelValues, d \in DimensionsValues,
        f \in EncodingFormats}

EmbedBodies ==
    {Body(i, JUndef, d, JUndef, JUndef, JUndef) :
        i \in InputValues, d \in DimensionsValues}

RerankBodies ==
    {Body(JUndef, JUndef, JUndef, JUndef, q, d) :
        q \in QueryValues, d \in DocumentsValues}

AllRequests ==
    {Request("/v1/embeddings", h, b) : h \in Headers, b \in V1Bodies}
        \cup {Request("/embed", h, b) : h \in Headers, b \in EmbedBodies}
        \cup {Request("/rerank", h, b) : h \in Headers, b \in RerankBodies}

\* The API_KEY values: unset, a plain key, a key that begins with "Bearer ".
AllApiKeys == {<<>>, <<"k">>, <<"Bearer ", "k">>}

InitRequest ==
    /\ InitWith(AllApiKeys, {[pt \in PrefixedTexts |-> <<1, 0>>]})
    /\ call = NoCall
    /\ server = ImportedModule

NextRequest ==
    \/ Receive(1, AllRequests)
    \/ \E authHeader \in HealthHeaders : GetHealth(authHeader)
    \/ TokenizerLoaded
    \/ ModelLoaded
    \/ \E e \in ErrorMessages : LoadThrows(e)
    \/ ResumeAfterInitialize(1)
    \/ TokenizerReturns(1)
    \/ ModelReturns(1)
    \/ \E e \in ErrorMessages : InferenceThrows(1, e)

SpecRequest == InitRequest /\ [][NextRequest]_vars

\* ------------------------------------------------ startServer, 512-603
\* server.ts run as the main module. The repository holds the file in two
\* forms of startServer: src/unnamed/part_002 (and part_001), with the
\* fallback to HTTP, and src/src/server.ts, without it. server.build says
\* which one runs.

Builds == {"part_002", "src/server.ts"}

\* process.env.USE_SSL
EnvValues == {"unset", "true", "false"}

\* part_002 line 226: process.env.USE_SSL === 'false' ? false : true
\* src/src/server.ts line 110: process.env.USE_SSL === 'true' || false
USE_SSL(build, value) ==
    IF build = "part_002" THEN value # "false" ELSE value = "true"

\* The file at SSL_KEY_PATH / SSL_CERT_PATH: not there, there but not
\* readable by the process, readable but not a PEM key / certificate, good.
FileStates == {"absent", "unreadable", "invalid", "valid"}

existsSync(file) == file # "absent"

readFileSyncThrows(file) == file \in {"absent", "unreadable"}

\* https.createServer(sslOptions, app) throws on a key or certificate that
\* does not parse.
createServerThrows(key, cert) == key = "invalid" \/ cert = "invalid"

\* process.exit(code): the process is gone, and its listeners with it.
processExit(p, code, pc) ==
    [p EXCEPT !.pc = pc, !.exited = TRUE, !.exitCode = code, !.listeners = {}]

\* httpsServer.listen(PORT, ..) / app.listen(PORT, ..)
listen(p, scheme) ==
    [p EXCEPT !.pc = "listening",
              !.listeners = @ \cup {Listener(scheme)},
              !.listened = @ \cup {Listener(scheme)}]

\* part_002 lines 520-584, after initialize() resolved: the inner try block
\* throws when a file is missing (523-530), unreadable (533-536) or does
\* not parse (539); its catch block only warns and execution continues at
\* app.listen.
httpsSetupThrows(key, cert) ==
    \/ ~existsSync(key) \/ ~existsSync(cert)
    \/ readFileSyncThrows(key) \/ readFileSyncThrows(cert)
    \/ createServerThrows(key, cert)

startListenerNoReturn(p) ==
    IF USE_SSL(p.build, p.USE_SSL) /\ ~httpsSetupThrows(p.key, p.cert)
    THEN listen(listen(p, "https"), "http")
    ELSE listen(p, "http")

startListener(p) ==
    IF USE_SSL(p.build, p.USE_SSL) /\ ~httpsSetupThrows(p.key, p.cert)
    THEN listen(p, "https")
    ELSE listen(p, "http")

\* src/src/server.ts lines 226-262, after initialize() resolved: missing
\* files end in process.exit(1) (227-233); an exception of readFileSync or
\* createServer is caught by the outer catch, which also exits (263-266).
startListenerOrExit(p) ==
    IF USE_SSL(p.build, p.USE_SSL)
    THEN IF ~existsSync(p.key) \/ ~existsSync(p.cert)
         THEN processExit(p, 1, "sslFailed")
         ELSE IF \/ readFileSyncThrows(p.key) \/ readFileSyncThrows(p.cert)
                 \/ createServerThrows(p.key, p.cert)
         THEN processExit(p, 1, "sslFailed")
         ELSE listen(p, "https")
    ELSE listen(p, "http")

\* Line 603: startServer() is called; it runs up to `await initialize()`.
StartServer ==
    /\ server.pc = "notStarted"
    /\ server' = [server EXCEPT !.pc = "awaitInit"]
    /\ initialize
    /\ UNCHANGED <<health, API_KEY, encoder, req, callStates, call>>

\* initialize() settled: on rejection the outer catch exits with code 1
\* (586-589), otherwise the listener is started.
StartServerResumes ==
    /\ server.pc = "awaitInit"
    /\ ~server.exited
    /\ AwaitSettled(initPromise)
    /\ server' =
        IF AwaitOutcome(initPromise, initError) # "resolved"
        THEN processExit(server, 1, "loadFailed")
        ELSE IF server.build = "part_002" THEN startListener(server)
        ELSE startListenerOrExit(server)
    /\ UNCHANGED Lifecycle
    /\ UNCHANGED <<health, API_KEY, encoder, req, callStates, call>>

\* A continuation of `await initialize()` is queued: the promise is settled
\* and startServer or a request handler waits on it. Continuations are
\* microtasks: they run before the event loop takes the next signal or
\* HTTP request.
MicrotaskPending ==
    /\ AwaitSettled(initPromise)
    /\ \/ server.pc = "awaitInit" /\ ~server.exited
       \/ \E r \in Slots : req[r].pc = "awaitInit"

\* Lines 593-601: process.on('SIGTERM' / 'SIGINT', () => process.exit(0)).
\* The handlers run once the module's top level has finished.
Signals == {"SIGTERM", "SIGINT"}

SignalAfterDrain(sig) ==
    /\ server.pc # "notStarted"
    /\ ~server.exited
    /\ ~MicrotaskPending
    /\ initPromise # "pending"
    /\ \A r \in Slots : req[r].pc \in {"idle", "done"}
    /\ server' = processExit(server, 0, server.pc)
    /\ UNCHANGED Lifecycle
    /\ UNCHANGED <<health, API_KEY, encoder, req, callStates, call>>

Signal(sig) ==
    /\ server.pc # "notStarted"
    /\ ~server.exited
    /\ ~MicrotaskPending
    /\ server' = processExit(server, 0, server.pc)
    /\ UNCHANGED Lifecycle
    /\ UNCHANGED <<health, API_KEY, encoder, req, callStates, call>>

MainModules ==
    {[ImportedModule EXCEPT !.build = b, !.USE_SSL = v, !.key = k, !.cert = c] :
        b \in Builds, v \in EnvValues, k \in FileStates, c \in FileStates}

InitStart ==
    /\ InitWith({<<"k">>}, {[pt \in PrefixedTexts |-> <<1, 0>>]})
    /\ call = NoCall
    /\ server \in MainModules

\* The process has a listener: HTTP requests reach the routes.
Listening == ~server.exited /\ server.listeners # {}

\* The requests sent to the started server: one per embeddings route and a
\* rerank, all with the key.
StartRequests ==
    {Request("/embed", <<"k">>, [NoBody EXCEPT !.input = JStr("hello")]),
     Request("/v1/embeddings", <<"Bearer ", "k">>,
             [NoBody EXCEPT !.input = JArr(<<"hi", "hello">>), !.model = JStr(MODEL_ID),
                            !.dimensions = JNum(256)]),
     Request("/rerank", <<"k">>, [NoBody EXCEPT !.query = JStr("q"),
                                                !.documents = JArr(<<"hello", "hi">>)])}

Running == ~server.exited

NextStart ==
    \/ StartServer
    \/ Running /\ TokenizerLoaded
    \/ Running /\ ModelLoaded
    \/ \E e \in ErrorMessages : Running /\ LoadThrows(e)
    \/ StartServerResumes
    \/ \E sig \in Signals : Signal(sig)
    \/ Listening /\ ~MicrotaskPending /\ Receive(1, StartRequests)
    \/ Running /\ ResumeAfterInitialize(1)
    \/ Running /\ TokenizerReturns(1)
    \/ Running /\ ModelReturns(1)
    \/ \E e \in ErrorMessages : Running /\ InferenceThrows(1, e)

SpecStart == InitStart /\ [][NextStart]_vars

\* The event loop runs a queued continuation of startServer.
FairSpecStart == SpecStart /\ WF_vars(StartServerResumes)

\* --------------------------------------------- requests under progress
\* The service with a few requests of every outcome, where the event loop
\* keeps running the callbacks that are ready.

AnsweredRequests ==
    StartRequests
        \cup {Request("/embed", <<>>, [NoBody EXCEPT !.input = JStr("hello")]),
              Request("/embed", <<"k">>, NoBody)}

InitAnswer ==
    /\ InitWith({<<"k">>}, {[pt \in PrefixedTexts |-> <<1, 0>>]})
    /\ call = NoCall
    /\ server = ImportedModule

NextAnswer ==
    \/ \E r \in Slots : Receive(r, AnsweredRequests)
    \/ TokenizerLoaded
    \/ ModelLoaded
    \/ \E e \in ErrorMessages : LoadThrows(e)
    \/ \E r \in Slots : ResumeAfterInitialize(r)
    \/ \E r \in Slots : TokenizerReturns(r)
    \/ \E r \in Slots : ModelReturns(r)
    \/ \E r \in Slots, e \in ErrorMessages : InferenceThrows(r, e)

SpecAnswer == InitAnswer /\ [][NextAnswer]_vars

FairSpecAnswer == SpecAnswer /\ WF_vars(Progress)

\* ------------------------------------------- the ranking on its own
\* Lines 181-208 applied to a query row and one to MaxDocs document rows.

RankCalls ==
    {[queryVector |-> q, documentVectors |-> d, returned |-> FALSE, ranking |-> <<>>] :
        q \in Vectors, d \in SeqsOf(Vectors, 1, MaxDocs)}

InitRerank ==
    /\ InitWith({<<"k">>}, {[pt \in PrefixedTexts |-> <<1, 0>>]})
    /\ call \in RankCalls
    /\ server = ImportedModule

Rank ==
    /\ ~call.returned
    /\ call' = [call EXCEPT !.returned = TRUE,
                            !.ranking = rankVectors(call.queryVector, call.documentVectors)]
    /\ UNCHANGED <<health, server, API_KEY, encoder, req, callStates>>
    /\ UNCHANGED Lifecycle

NextRerank == Rank

SpecRerank == InitRerank /\ [][NextRerank]_vars

\* ================================================================ claims

\* Request r got past the middleware and the validation, so its handler
\* called initialize().
CalledInitialize(r) == req[r].pc # "idle" /\ req[r].failedIn \notin {"auth", "validation"}

\* C1: for any number of initialize() calls in any interleaving, the model
\* load (_doInitialize) is started at most once.
C1_LoadStartedAtMostOnce == loadStarts <= 1

\* two callers, one first and one while the load was in flight, both served
C1_Witness ==
    /\ loadStarts = 1
    /\ req[1].arrivedIn = "Uninitialized" /\ req[1].response.status = 200
    /\ req[2].arrivedIn = "Initializing" /\ req[2].response.status = 200

\* C2: a call that arrives while the load is in flight suspends until the
\* load resolves and then observes the outcome of the load, the same one for
\* every caller: success only after the load completed, or the load's error.
C2_WaitersShareOutcome ==
    \A r \in Slots :
        /\ req[r].pc = "awaitInit" => req[r].initSeen = "none"
        /\ (CalledInitialize(r) /\ req[r].pc # "awaitInit") => req[r].initSeen # "none"
        /\ req[r].initSeen = "resolved" =>
               loadPc = "returned" /\ isInitialized /\ initPromise = "fulfilled"
        /\ req[r].initSeen \notin {"none", "resolved"} =>
               /\ loadPc = "thrown"
               /\ req[r].initSeen = initError
               /\ req[r].response = catchResponse(req[r].in.route, initError)
        /\ \A q \in Slots :
               (req[r].initSeen # "none" /\ req[q].initSeen # "none")
                   => req[r].initSeen = req[q].initSeen

\* the first caller and one that arrived during the load got the same error
C2_Witness ==
    /\ req[1].arrivedIn = "Uninitialized"
    /\ req[2].arrivedIn = "Initializing"
    /\ req[1].initSeen \in ErrorMessages
    /\ req[2].initSeen = req[1].initSeen
    /\ req[2].response.status = 500

\* C3: once the load has failed there is no retry: the promise stays
\* rejected with the same error, no new load starts, isInitialized stays
\* false, every request that reaches initialize() is answered with that
\* error, and no request is answered with a success.
C3_FailedState ==
    initPromise = "rejected" =>
        /\ ~isInitialized
        /\ loadStarts = 1
        /\ \A r \in Slots :
               /\ req[r].response.status # 200
               /\ (CalledInitialize(r) /\ req[r].pc = "done") =>
                      /\ req[r].initSeen = initError
                      /\ req[r].response = catchResponse(req[r].in.route, initError)

C3_FailedStep ==
    initPromise = "rejected" =>
        /\ initPromise' = "rejected"
        /\ initError' = initError
        /\ loadStarts' = loadStarts
        /\ isInitialized' = FALSE

C3_NoRetryAfterFailure == [](C3_FailedState) /\ [][C3_FailedStep]_vars

\* a request that arrived after the failure was answered with the cached error
C3_Witness ==
    /\ initPromise = "rejected"
    /\ req[1].failedIn = "initialize"
    /\ req[2].arrivedIn = "Failed"
    /\ req[2].failedIn = "initialize"
    /\ req[2].response.message = initError

\* C4: the readiness state moves only Uninitialized -> Initializing ->
\* Ready or Failed, Ready and Failed are never left, and isInitialized, once
\* true, is never false again.
C4_Step ==
    /\ \/ ReadinessState' = ReadinessState
       \/ <<ReadinessState, ReadinessState'>> \in
              {<<"Uninitialized", "Initializing">>,
               <<"Initializing", "Ready">>,
               <<"Initializing", "Failed">>}
    /\ isInitialized => isInitialized'
    /\ isInitialized' => ReadinessState' = "Ready"

C4_ReadinessMonotone == [][C4_Step]_vars

\* Ready, and still Ready after a request failed in inference
C4_Witness ==
    /\ isInitialized
    /\ ReadinessState = "Ready"
    /\ \E r \in Slots : req[r].failedIn = "inference"

\* C5: the tokenizer and the model are invoked only when initialization has
\* resolved to Ready.
C5_InferenceOnlyWhenReady ==
    /\ callStates \subseteq {"Ready"}
    /\ \A r \in Slots :
           req[r].pc \in {"tokenizer", "model", "tokenizerDocs", "modelDocs"}
               => ReadinessState = "Ready" /\ isInitialized

\* an embed and a rerank request that waited for the load and were served
C5_Witness ==
    /\ callStates = {"Ready"}
    /\ req[1].in.route = "/rerank" /\ req[1].response.status = 200
    /\ req[1].arrivedIn = "Uninitialized"
    /\ req[2].in.route = "/embed" /\ req[2].response.status = 200
    /\ req[2].arrivedIn = "Initializing"

\* C6: a failed inference call is answered with a 5xx for that request
\* only; the readiness state and the handles stay as they were, nothing is
\* reloaded, and the other requests are untouched.
C6_FailedState ==
    \A r \in Slots :
        req[r].failedIn = "inference" =>
            /\ req[r].response.status = 500
            /\ req[r].pc = "done"
            /\ ReadinessState = "Ready" /\ isInitialized
            /\ tokenizer = "loaded" /\ model = "loaded"
            /\ loadStarts = 1

C6_FailingStep ==
    \A r \in Slots :
        (req[r].failedIn # "inference" /\ req'[r].failedIn = "inference") =>
            /\ UNCHANGED Lifecycle
            /\ \A q \in Slots \ {r} : req'[q] = req[q]

C6_InferenceErrorIsLocal == [](C6_FailedState) /\ [][C6_FailingStep]_vars

\* after one request failed in inference, one that arrived Ready was served
C6_Witness ==
    /\ req[1].failedIn = "inference"
    /\ req[2].arrivedIn = "Ready"
    /\ req[2].response.status = 200
    /\ loadStarts = 1

\* The texts an `input` stands for: a string is a one-element list.
InputTexts(input) == IF input.kind = "string" THEN <<input.str>> ELSE input.arr

\* C10: embed answers with one vector per input text, in input order:
\* vector i is the encoding of text i, data[i].index = i in /v1/embeddings,
\* and a single string counts as a one-element list.
C10_OneVectorPerText ==
    \A r \in Slots :
        (req[r].response.status = 200 /\ req[r].in.route # "/rerank") =>
            LET texts == InputTexts(req[r].in.body.input)
                data == req[r].response.data
            IN  /\ Len(data) = Len(texts)
                /\ req[r].in.body.input.kind = "string" => Len(data) = 1
                /\ IF req[r].in.route = "/v1/embeddings"
                   THEN \A i \in 1..Len(texts) :
                            /\ data[i].index = i - 1
                            /\ data[i].embedding.of = <<prefixes.document, texts[i]>>
                   ELSE /\ req[r].response.count = Len(texts)
                        /\ \A i \in 1..Len(texts) :
                               data[i].of = <<prefixes.document, texts[i]>>

\* a list of two texts on /v1/embeddings and a single string on /embed
C10_Witness ==
    /\ req[1].in.route = "/v1/embeddings"
    /\ req[1].in.body.input = JArr(<<"hi", "hello">>)
    /\ req[1].response.status = 200
    /\ Len(req[1].response.data) = 2
    /\ req[1].response.data[2].index = 1
    /\ req[2].in.route = "/embed"
    /\ req[2].in.body.input = JStr("hello")
    /\ req[2].response.status = 200
    /\ req[2].response.count = 1

\* The cosine of the angle between q and u is less than that between q and v
\* (q, u, v not zero): dot(q,u)/|u| < dot(q,v)/|v|.
CosineLess(q, u, v) == RealLess(Dot(q, u), Dot(u, u), Dot(q, v), Dot(v, v))

CosineEq(q, u, v) == ~CosineLess(q, u, v) /\ ~CosineLess(q, v, u)

\* C7: for every non-empty documents list, rerank returns a permutation of
\* [0, len(documents)): as long as the list, every index exactly once.
C7_RankingIsPermutation ==
    call.returned =>
        /\ Len(call.ranking) = Len(call.documentVectors)
        /\ \A i \in 0..(Len(call.documentVectors) - 1) :
               Cardinality({k \in DOMAIN call.ranking : call.ranking[k] = i}) = 1

C7_Witness ==
    /\ call.returned
    /\ Len(call.documentVectors) = 3
    /\ call.ranking = <<2, 0, 1>>

\* C8: two documents of exactly equal similarity keep their input order in
\* the ranking.
C8_TiesKeepInputOrder ==
    call.returned =>
        \A i, j \in 0..(Len(call.documentVectors) - 1) :
            (/\ i < j
             /\ CosineEq(call.queryVector, call.documentVectors[i + 1],
                         call.documentVectors[j + 1]))
            => \E a, b \in DOMAIN call.ranking :
                   a < b /\ call.ranking[a] = i /\ call.ranking[b] = j

\* a tie between two different rows, ranked behind a later, better document
C8_Witness ==
    /\ call.returned
    /\ call.queryVector = <<1, 1>>
    /\ call.documentVectors = <<(<<0, 1>>), (<<2, 0>>), (<<1, 1>>)>>
    /\ call.ranking = <<2, 0, 1>>

\* C9: the ranking is in descending similarity: no document is followed by
\* one of greater similarity to the query.
C9_RankingDescends ==
    call.returned =>
        /\ Len(call.ranking) = Len(call.documentVectors)
        /\ \A k \in 1..(Len(call.ranking) - 1) :
               ~CosineLess(call.queryVector,
                           call.documentVectors[call.ranking[k] + 1],
                           call.documentVectors[call.ranking[k + 1] + 1])

\* three different similarities, given in ascending order
C9_Witness ==
    /\ call.returned
    /\ call.queryVector = <<1, 0>>
    /\ call.documentVectors = <<(<<-1, 0>>), (<<1, 1>>), (<<2, 0>>)>>
    /\ call.ranking = <<2, 1, 0>>

\* ------------------------------------------------ embeddings responses

EmbeddingRoutes == {"/v1/embeddings", "/embed"}

\* The vectors of a 200 response of an embeddings route: data[i].embedding
\* of /v1/embeddings, embeddings[i] of /embed.
ResponseVectors(route, response) ==
    [i \in DOMAIN response.data |->
        IF route = "/v1/embeddings" THEN response.data[i].embedding
        ELSE response.data[i]]

Succeeded(r) == req[r].pc = "done" /\ req[r].response.status = 200

EmbeddingsSucceeded(r) == Succeeded(r) /\ req[r].in.route \in EmbeddingRoutes

\* The length the request asks for: `dimensions` when the body has one,
\* the native 768 otherwise.
RequestedLength(dimensions) ==
    IF dimensions.kind = "undefined" THEN MAX_DIMENSIONS ELSE dimensions.num

\* C11: every vector of a successful /v1/embeddings or /embed response has
\* as many components as the request's `dimensions` says, and 768 when the
\* request has no `dimensions`.
C11_VectorLengthAsRequested ==
    \A r \in Slots :
        EmbeddingsSucceeded(r) =>
            LET vectors == ResponseVectors(req[r].in.route, req[r].response)
            IN  \A i \in DOMAIN vectors :
                    vectors[i].len = RequestedLength(req[r].in.body.dimensions)

\* ------------------------------------------------ dimensions validation

Received(r) == req[r].pc # "idle"

\* The middleware called next() for the request of slot r.
Authenticated(r) ==
    Received(r) /\ authenticateApiKey(API_KEY, req[r].in.authorization) = NoResponse

\* The request was answered 400 by its route's validation, before the
\* call of getEmbeddings / rerank: no load started for it, no inference.
RejectedByValidation(r) ==
    /\ req[r].pc = "done"
    /\ req[r].response.status = 400
    /\ req[r].failedIn = "validation"
    /\ req[r].initSeen = "none"

OutsideRange(dimensions) ==
    dimensions.kind = "number" /\ dimensions.num \notin 1..MAX_DIMENSIONS

\* C12: every authenticated POST /v1/embeddings request whose `dimensions`
\* is a number outside 1..768 is answered 400 by the validation, and no
\* inference is made for it.
C12_OutOfRangeDimensionsRejected ==
    \A r \in Slots :
        (/\ Authenticated(r)
         /\ req[r].in.route = "/v1/embeddings"
         /\ OutsideRange(req[r].in.body.dimensions))
            => RejectedByValidation(r)

\* ------------------------------------------------- the reduction steps

\* The rows the model returns for the texts of the request of slot r.
EncoderOutput(r) ==
    sentence_embedding(processedTexts(textsOf(req[r].in.body.input)))

NativeOrNone(dimensions) ==
    dimensions.kind = "undefined" \/ dimensions = JNum(MAX_DIMENSIONS)

\* C13: when the request has no `dimensions` or asks for the native 768,
\* the vectors of the response are the rows the model returned, with no
\* layer normalization, slice or normalization applied.
C13_NativeIsNoOp ==
    \A r \in Slots :
        (EmbeddingsSucceeded(r) /\ NativeOrNone(req[r].in.body.dimensions))
            => ResponseVectors(req[r].in.route, req[r].response) = EncoderOutput(r)

C13_Witness ==
    \E r \in Slots :
        /\ EmbeddingsSucceeded(r)
        /\ req[r].in.body.dimensions = JNum(MAX_DIMENSIONS)
        /\ ResponseVectors(req[r].in.route, req[r].response) = EncoderOutput(r)

ReductionSteps == <<"layer_norm", "slice", "normalize">>

\* C14: a vector of a response to which any reduction step was applied went
\* through layer_norm (on the full 768-component row), then slice, then
\* normalize, each once and in this order; for `dimensions` in 1..767 the
\* slice leaves exactly `dimensions` components.
C14_ReductionStepsInOrder ==
    \A r \in Slots :
        EmbeddingsSucceeded(r) =>
            LET vectors == ResponseVectors(req[r].in.route, req[r].response)
                dimensions == req[r].in.body.dimensions
            IN  \A i \in DOMAIN vectors :
                    /\ vectors[i].of = EncoderOutput(r)[i].of
                    /\ vectors[i].ops \in {<<>>, ReductionSteps}
                    /\ (~Falsy(dimensions) /\ dimensions.num < MAX_DIMENSIONS)
                            => vectors[i].ops = ReductionSteps
                    /\ (vectors[i].ops # <<>> /\ dimensions.num \in 1..MAX_DIMENSIONS)
                            => vectors[i].len = dimensions.num

C14_Witness ==
    \E r \in Slots :
        /\ EmbeddingsSucceeded(r)
        /\ req[r].in.body.dimensions = JNum(256)
        /\ \A i \in DOMAIN req[r].response.data :
               ResponseVectors(req[r].in.route, req[r].response)[i].ops = ReductionSteps

\* ------------------------------------------------------ authentication

\* The header carries the configured key K: it is K itself, or "Bearer "
\* followed by K. No header carries a key that is not configured.
CarriesKey(K, authHeader) ==
    K # <<>> /\ (authHeader = K \/ authHeader = <<"Bearer ">> \o K)

\* The middleware answered the request of slot r itself: the route handler
\* (validation, getEmbeddings / rerank) never ran for it.
StoppedByMiddleware(r) ==
    /\ req[r].pc = "done"
    /\ req[r].failedIn = "auth"
    /\ req[r].initSeen = "none"

\* C15: a request whose Authorization header does not carry the configured
\* key is answered by the middleware with 401 or 500: it does not reach the
\* route's validation (no 400), starts no load, makes no tokenizer or model
\* call, and gets no 2xx.
C15_UnauthenticatedStopsAtMiddleware ==
    \A r \in Slots :
        (Received(r) /\ ~CarriesKey(API_KEY, req[r].in.authorization)) =>
            /\ StoppedByMiddleware(r)
            /\ req[r].response.status \in {401, 500}
            /\ loadStarts = 0
            /\ callStates = {}

C15_Witness ==
    \E r \in Slots :
        /\ Received(r)
        /\ API_KEY = <<"k">>
        /\ req[r].in.authorization = <<"Bearer ", "x">>
        /\ validate(req[r].in.route, req[r].in.body) = NoResponse
        /\ req[r].response.status = 401

\* C16: for every configured key K, the header K and the header
\* "Bearer " + K both pass the middleware.
C16_BareAndBearerAccepted ==
    \A r \in Slots :
        (Received(r) /\ CarriesKey(API_KEY, req[r].in.authorization))
            => req[r].failedIn # "auth"

\* C17: with no API_KEY configured every request is answered 500, whatever
\* its header; with one configured, a request without header is answered
\* 401 and one whose header does not carry the key is answered 401.
C17_AuthenticationOutcomes ==
    \A r \in Slots :
        Received(r) =>
            LET authHeader == req[r].in.authorization
            IN  /\ API_KEY = <<>> =>
                    StoppedByMiddleware(r) /\ req[r].response.status = 500
                /\ (API_KEY # <<>> /\ authHeader = <<>>) =>
                    /\ StoppedByMiddleware(r)
                    /\ req[r].response =
                        ErrorResponse(401, "Unauthorized", "Authorization header is required")
                /\ (API_KEY # <<>> /\ authHeader # <<>> /\ ~CarriesKey(API_KEY, authHeader)) =>
                    /\ StoppedByMiddleware(r)
                    /\ req[r].response = ErrorResponse(401, "Unauthorized", "Invalid API key")

C17_Witness ==
    \E r \in Slots :
        /\ Received(r)
        /\ API_KEY = <<>>
        /\ req[r].in.authorization = <<"Bearer ", "k">>
        /\ req[r].response.status = 500

\* ---------------------------------------------------------- validation

Missing(v) == v.kind = "undefined"

\* Missing or empty: absent, the empty string, or the empty list.
MissingOrEmpty(v) == Missing(v) \/ v = JStr("") \/ v = JArr(<<>>)

\* The validation failures of each route, as the request body shows them.
FailsValidation(in) ==
    CASE in.route = "/v1/embeddings" ->
            \/ MissingOrEmpty(in.body.input)
            \/ Missing(in.body.model)
            \/ in.body.model # JStr(MODEL_ID)
            \/ ~Missing(in.body.encoding_format) /\ in.body.encoding_format # JStr("float")
      [] in.route = "/embed" -> MissingOrEmpty(in.body.input)
      [] in.route = "/rerank" ->
            \/ MissingOrEmpty(in.body.query)
            \/ Missing(in.body.documents)
            \/ in.body.documents.kind # "array"
            \/ in.body.documents = JArr(<<>>)

\* C19: every authenticated request with a missing or unknown model, an
\* encoding_format other than "float", a missing or empty input, a missing
\* query or documents, or documents that are not a list or are empty, is
\* answered 400 by the validation; no load is started and no tokenizer or
\* model call is made for it.
C19_InvalidRequestsRejected ==
    \A r \in Slots :
        (Authenticated(r) /\ FailsValidation(req[r].in)) =>
            /\ RejectedByValidation(r)
            /\ loadStarts = 0
            /\ callStates = {}

C19_Witness ==
    \E r \in Slots :
        /\ Authenticated(r)
        /\ req[r].in.route = "/rerank"
        /\ req[r].in.body.query = JStr("q")
        /\ req[r].in.body.documents = JArr(<<>>)
        /\ req[r].response = ErrorResponse(400, "Documents array cannot be empty", "")

\* ---------------------------------------------------------- GET /health

HealthAnswered == health.status # 0

\* Whatever the header, the answer is 200 and its `initialized` field is
\* true exactly when the service was Ready.
C18_HealthAnswer ==
    HealthAnswered =>
        /\ health.status = 200
        /\ health.initialized <=> (health.state = "Ready")

\* GET /health can be handled in the current state, with or without header.
C18_HealthNeverBlocks ==
    \A authHeader \in HealthHeaders : ENABLED GetHealth(authHeader)

\* A step that answers GET /health leaves the service, the requests in
\* flight and the process as they were.
C18_HealthStep ==
    health' # health =>
        /\ UNCHANGED Lifecycle
        /\ UNCHANGED <<API_KEY, encoder, req, callStates, call, server>>

\* C18: GET /health is answered in every readiness state without
\* authentication and without waiting; `initialized` is true exactly in the
\* Ready state; handling it starts no load and changes no state.
C18_HealthIsReadOnly ==
    [](C18_HealthAnswer /\ C18_HealthNeverBlocks) /\ [][C18_HealthStep]_vars

C18_Witness ==
    /\ HealthAnswered
    /\ health.state = "Initializing"
    /\ health.authorization = <<>>
    /\ ~health.initialized
    /\ loadStarts = 1

\* ------------------------------------------------------------- startup

EncryptedRequested == USE_SSL(server.build, server.USE_SSL)

AbsentOrUnreadable(file) == file \in {"absent", "unreadable"}

\* startServer got past `await initialize()` with the model loaded.
LoadedAtStartup == server.pc \in {"listening", "sslFailed"}

\* C20: when encrypted mode is requested and the key or the certificate
\* file is absent or unreadable, startServer does not exit: once the model
\* is loaded it starts an HTTP listener on PORT, and no other listener.
C20_FallsBackToHttp ==
    (/\ EncryptedRequested
     /\ AbsentOrUnreadable(server.key) \/ AbsentOrUnreadable(server.cert)
     /\ LoadedAtStartup)
        => /\ server.pc = "listening"
           /\ server.listened = {Listener("http")}
           /\ server.exited => server.exitCode = 0

\* C21: with the USE_SSL environment variable unset, encrypted mode is off:
\* once the model is loaded the process listens on plain HTTP, whatever the
\* state of the key and certificate files.
C21_UnsetMeansHttp ==
    (server.USE_SSL = "unset" /\ server.pc # "notStarted") =>
        /\ ~EncryptedRequested
        /\ LoadedAtStartup =>
            /\ server.pc = "listening"
            /\ server.listened = {Listener("http")}

\* --------------------------------------------------- load failure at startup

LoadFailed == initPromise = "rejected"

\* After a failed load there is no listener and there never was one;
\* startServer's catch block has exited with code 1 once it ran, and the
\* process has not exited in any other way.
C22_LoadFailureState ==
    LoadFailed =>
        /\ server.listeners = {}
        /\ server.listened = {}
        /\ server.pc \in {"awaitInit", "loadFailed"}
        /\ server.pc = "loadFailed" <=> server.exited
        /\ server.exited => server.exitCode = 1

\* C22: when the load started by startServer fails, the process exits with
\* code 1, and no HTTPS or HTTP listener is bound before or after.
C22_LoadFailureExits ==
    /\ []C22_LoadFailureState
    /\ LoadFailed ~> (server.exited /\ server.exitCode = 1 /\ server.listened = {})

C22_Witness ==
    /\ LoadFailed
    /\ tokenizer = "loaded"
    /\ model = "null"
    /\ server.pc = "loadFailed"
    /\ server.exited
    /\ server.exitCode = 1

\* -------------------------------------------------------------- signals

InFlight(r) == req[r].pc \notin {"idle", "done"}

\* The event loop is between callbacks of a started, running process.
BetweenCallbacks ==
    server.pc # "notStarted" /\ ~server.exited /\ ~MicrotaskPending

\* Either signal can be handled now.
C23_SignalHandledNow ==
    BetweenCallbacks => \A sig \in Signals : ENABLED Signal(sig)

\* A step in which the process exits with code 0 is the handler of a
\* signal: it answers no request and does not touch the load.
C23_SignalStep ==
    (~server.exited /\ server'.exited /\ server'.exitCode = 0) =>
        /\ server'.listeners = {}
        /\ UNCHANGED req
        /\ UNCHANGED Lifecycle

\* Nothing happens in a process that has exited.
C23_ExitedStep == server.exited => UNCHANGED vars

ErrorAnswered(r) == req[r].pc = "done" /\ req[r].response.status >= 400

\* C24: the body of an error response does not depend on the message of
\* the internal exception: two requests with the same content that fail at
\* the same step get the same response, and no error response carries the
\* text of an exception thrown by the load or by an inference call.
C24_ErrorBodyIndependentOfException ==
    /\ \A r1, r2 \in Slots :
        (/\ ErrorAnswered(r1) /\ ErrorAnswered(r2)
         /\ req[r1].in = req[r2].in
         /\ req[r1].failedIn = req[r2].failedIn)
            => req[r1].response = req[r2].response
    /\ \A r \in Slots :
        ErrorAnswered(r) => req[r].response.message \notin ErrorMessages

\* ----------------------------------------------------- no hidden state

SameCall(r1, r2) ==
    /\ textsOf(req[r1].in.body.input) = textsOf(req[r2].in.body.input)
    /\ req[r1].in.body.dimensions = req[r2].in.body.dimensions

HandedToTokenizer(r) == req[r].batch # <<>>

WithPrefix(prefix, texts) == [i \in DOMAIN texts |-> <<prefix, texts[i]>>]

\* C26: every text handed to the tokenizer, and so to the encoder, is a
\* caller's text behind a role prefix: embed hands each input behind the
\* document prefix; rerank hands the query behind the query prefix and
\* then each document behind the document prefix; the rows of a successful
\* embeddings response are those of the prefixed inputs.
C26_EveryTextPrefixed ==
    \A r \in Slots :
        LET in == req[r].in
        IN  /\ HandedToTokenizer(r) =>
                IF in.route # "/rerank"
                THEN req[r].batch = WithPrefix(prefixes.document, textsOf(in.body.input))
                ELSE \/ req[r].batch = WithPrefix(prefixes.query, <<in.body.query.str>>)
                     \/ /\ req[r].batch = WithPrefix(prefixes.document, in.body.documents.arr)
                        /\ req[r].pc \in {"tokenizerDocs", "modelDocs", "done"}
            /\ req[r].pc \in {"tokenizer", "model"} =>
                /\ HandedToTokenizer(r)
                /\ in.route = "/rerank" =>
                    req[r].batch = WithPrefix(prefixes.query, <<in.body.query.str>>)
            /\ req[r].pc \in {"tokenizerDocs", "modelDocs"} =>
                req[r].batch = WithPrefix(prefixes.document, in.body.documents.arr)
            /\ EmbeddingsSucceeded(r) =>
                LET vectors == ResponseVectors(in.route, req[r].response)
                    texts == textsOf(in.body.input)
                IN  /\ Len(vectors) = Len(texts)
                    /\ \A i \in DOMAIN vectors :
                        vectors[i].of = <<prefixes.document, texts[i]>>

C26_Witness ==
    /\ EmbeddingsSucceeded(1)
    /\ Len(textsOf(req[1].in.body.input)) = 2
    /\ req[2].in.route = "/rerank"
    /\ req[2].pc = "modelDocs"
    /\ Len(req[2].batch) = 2

\* ------------------------------------------- listening after the load

Handled(r) == req[r].pc # "idle"

C27_ListenerState ==
    /\ server.listened # {} =>
        /\ initPromise = "fulfilled"
        /\ isInitialized
        /\ tokenizer = "loaded" /\ model = "loaded"
    /\ \A r \in Slots :
        Handled(r) => /\ req[r].arrivedIn = "Ready"
                      /\ isInitialized
    /\ callStates \subseteq {"Ready"}

C27_ListenStep ==
    server'.listened # server.listened =>
        /\ server.pc = "awaitInit"
        /\ initPromise = "fulfilled" /\ isInitialized
        /\ UNCHANGED Lifecycle

\* C27: started through startServer, a listener is bound only by the step
\* that follows a successful initialize(), so that every request is
\* received, and every tokenizer or model call is made, with the readiness
\* flag true.
C27_ListensOnlyWhenReady == []C27_ListenerState /\ [][C27_ListenStep]_vars

C27_Witness ==
    /\ server.listened # {}
    /\ req[1].pc = "done"
    /\ req[1].response.status = 200
    /\ req[1].arrivedIn = "Ready"

\* C28: one run of startServer starts at most one listener: after a
\* listener is started no other is, on the HTTPS path, on the plain path and
\* on every fallback from the first to the second.
C28_ListenerStartedOnce ==
    server.listened # {} => server'.listened = server.listened

C28_AtMostOneListener ==
    /\ [](/\ Cardinality(server.listened) <= 1
          /\ server.listeners \subseteq server.listened)
    /\ [][C28_ListenerStartedOnce]_vars

C28_Witness ==
    /\ server.build = "part_002"
    /\ EncryptedRequested
    /\ server.key = "valid" /\ server.cert = "invalid"
    /\ server.listened = {Listener("http")}

\* ------------------------------------------- the flag and the handles

ModelLoadFailed == loadPc = "thrown" /\ tokenizer = "loaded"

\* C30: whenever the readiness flag is true both handles are set; when the
\* tokenizer loaded and the model load threw, the flag is false and the
\* model handle unset although the tokenizer handle is set.
C30_FlagImpliesHandles ==
    /\ isInitialized => (tokenizer = "loaded" /\ model = "loaded")
    /\ ModelLoadFailed =>
        /\ ~isInitialized
        /\ model = "null"
        /\ initPromise = "rejected"

C30_Witness ==
    /\ ModelLoadFailed
    /\ ~isInitialized
    /\ req[1].pc = "done" /\ req[1].failedIn = "initialize"
    /\ req[2].pc = "done" /\ req[2].arrivedIn = "Failed"

\* ------------------------------------------- one response per request

Answered(r) == req[r].response # NoResponse

C29_AnsweredIsDone ==
    \A r \in Slots : /\ Answered(r) <=> req[r].pc = "done"
                     /\ Answered(r) => req[r].response.status \in {200, 400, 401, 500}

C29_NoSecondResponse ==
    \A r \in Slots : /\ Answered(r) => req'[r] = req[r]
                     /\ Handled(r) => req'[r].in = req[r].in

C29_AllAnswered == \A r \in Slots : Handled(r) => Answered(r)

\* C29: a request to /v1/embeddings, /embed or /rerank gets exactly one
\* response: once answered its handler sends nothing more, and, the load and
\* the tokenizer and model calls ending, from some point on every received
\* request is answered and stays so, the requests received while the load
\* is pending included.
C29_ExactlyOneResponse ==
    /\ []C29_AnsweredIsDone
    /\ [][C29_NoSecondResponse]_vars
    /\ <>[]C29_AllAnswered

C29_Witness ==
    /\ req[1].arrivedIn = "Uninitialized" /\ Answered(1)
    /\ req[2].arrivedIn = "Initializing" /\ Answered(2)
    /\ req[2].in.route = "/rerank"
    /\ req[2].response.status = 200

====
